---- MODULE Spec2Model ----
(***************************************************************************)
(* Model of the MRO cost estimator: the interactive front end (app.py)     *)
(* and the web front end (app_streamlit.py) over one reference catalog.    *)
(*                                                                         *)
(* Money values are Python floats in the source.  They are modelled as     *)
(* binary floating point numbers with Prec significant bits, rounded to    *)
(* nearest, ties to even, after every operation, as IEEE-754 does with 53  *)
(* bits.  A value v is held as the integer v * One, so the grid of the     *)
(* smallest exponent is 1 / One.                                           *)
(***************************************************************************)
EXTENDS Integers, Sequences, FiniteSets, TLC

\* ------------------------------------------------------------------------
\* Bounds of the model
\* ------------------------------------------------------------------------
\* significant bits kept by a float (53 in the source's float64)
Prec == 9
\* the most comma-separated fields a typed answer has
MaxEntryLen == 2
\* the largest integer a user types as an index
MaxIdx == 3
\* the largest quantity a user enters
MaxQty == 2
\* the most line items of a quote of the interactive front end
MaxItems == 3
\* the largest quantity calculate_cost is called with directly
MaxCalcQty == 3
\* the most direct calls of calculate_cost in a run
MaxCalls == 2

\* ------------------------------------------------------------------------
\* Floats
\* ------------------------------------------------------------------------
\* the float 1.0 (the default multiplier)
One == 2

RECURSIVE Pow2(_)
Pow2(k) == IF k = 0 THEN 1 ELSE 2 * Pow2(k - 1)

\* the unit in the last place for the magnitude N / D
RECURSIVE UlpOf(_, _, _)
UlpOf(N, D, u) == IF N < Pow2(Prec) * u * D THEN u ELSE UlpOf(N, D, 2 * u)

\* the float nearest to the rational N / D (N >= 0, D > 0), ties to even
RoundMag(N, D) ==
    LET u == UlpOf(N, D, 1)
        q == N \div (D * u)
        r == N % (D * u)
    IN  IF 2 * r > D * u THEN (q + 1) * u
        ELSE IF 2 * r < D * u THEN q * u
        ELSE IF q % 2 = 0 THEN q * u
        ELSE (q + 1) * u

FRound(N, D) == IF N < 0 THEN 0 - RoundMag(0 - N, D) ELSE RoundMag(N, D)

\* float + float
FAdd(a, b) == FRound(a + b, 1)

\* float * float
FMul(a, b) == FRound(a * b, One)

\* int -> float, as Python converts the int operand of float * int
ToFloat(n) == FRound(n * One, 1)

\* float(x) of a numeric table cell
FloatOf(cell) == FRound(cell, 1)

\* ------------------------------------------------------------------------
\* Reference tables (the CSV files as loaded, never written afterwards)
\* ------------------------------------------------------------------------
engine_models_df == << [EngineModel |-> "E1"], [EngineModel |-> "E2"], [EngineModel |-> "E3"] >>

\* E2 has no assembly; the pair (E1, A1) is listed twice
assemblies_df ==
    << [EngineModel |-> "E1", AssemblyCode |-> "A1"],
       [EngineModel |-> "E1", AssemblyCode |-> "A2"],
       [EngineModel |-> "E1", AssemblyCode |-> "A1"],
       [EngineModel |-> "E3", AssemblyCode |-> "A1"] >>

\* (E1, A2) has no part; SeriesQty is {} when the cell is blank
parts_df ==
    << [EngineModel |-> "E1", AssemblyCode |-> "A1", PartNumber |-> "P1",
        Description |-> "Blade", SeriesQty |-> {}],
       [EngineModel |-> "E3", AssemblyCode |-> "A1", PartNumber |-> "P3",
        Description |-> "Disk", SeriesQty |-> {2}],
       [EngineModel |-> "E1", AssemblyCode |-> "A1", PartNumber |-> "P2",
        Description |-> "Vane", SeriesQty |-> {12}] >>

\* base costs 200.0 and 0.5
procedures_df ==
    << [ProcedureCode |-> "R100", ProcedureName |-> "Repair", BaseCostUSD |-> 200 * One],
       [ProcedureCode |-> "R300", ProcedureName |-> "Inspect", BaseCostUSD |-> 1] >>

MRow(p, c, m) == [PartNumber |-> p, ProcedureCode |-> c, Multiplier |-> m]

\* the multiplier table of a session: (P1, R300) = 2.0, (P1, R100) = 1.5,
\* (P2, R100) = 2.0
MultipliersCsv ==
    << MRow("P1", "R300", 4), MRow("P1", "R100", 3), MRow("P2", "R100", 4) >>

\* the multiplier tables the pricing functions are called on: also one
\* without (P1, R100), whose rows match P1 or R100 but never both, and one
\* that lists (P1, R100) twice
MultiplierTables ==
    { MultipliersCsv,
      << MRow("P2", "R100", 4), MRow("P1", "R300", 4) >>,
      << MRow("P1", "R100", 3), MRow("P1", "R100", 6) >> }

VARIABLES
    frontend,           \* "cli" (app.py) or "web" (app_streamlit.py)
    multipliers_df,     \* the multiplier table loaded
    pc,                 \* the step the session is at
    message,            \* what the last step reported to the user
    selected_engine, selected_assembly,
    selected_parts,     \* the parts chosen, in order
    part_i,             \* position of the part loop in selected_parts
    quantity,           \* quantity of the part being processed
    selected_procs,     \* the procedures chosen for the part being processed
    selections,         \* the (part, procedure, quantity) selections made, in order,
                        \* each with the position of its part in selected_parts
    calls,              \* the calls of calculate_cost made, with their outcome
    prompt,             \* a call of prompt_choice: its arguments, the last answer
                        \* read, what was printed, and the value returned
    quote_items, part_totals, grand_total

catalog == << multipliers_df >>

session == << pc, message, selected_engine, selected_assembly,
              selected_parts, part_i, quantity, selected_procs, selections, quote_items,
              part_totals, grand_total >>

vars == << frontend, catalog, session, calls, prompt >>

\* ------------------------------------------------------------------------
\* Table helpers
\* ------------------------------------------------------------------------
\* df[mask]: the positions of the selected rows, in table order
RECURSIVE RowsInOrder(_)
RowsInOrder(S) ==
    IF S = {} THEN << >>
    ELSE LET first == CHOOSE x \in S : \A y \in S : x <= y
         IN  << first >> \o RowsInOrder(S \ {first})

\* Series.unique(): first occurrences, in order
RECURSIVE Unique(_)
Unique(s) ==
    IF s = << >> THEN << >>
    ELSE LET init == Unique(SubSeq(s, 1, Len(s) - 1))
             x == s[Len(s)]
         IN  IF \E k \in 1..Len(init) : init[k] = x THEN init ELSE Append(init, x)

\* ------------------------------------------------------------------------
\* Pricing
\* ------------------------------------------------------------------------
\* faulty variant: a row matching either field counts
MultiplierRowsEitherField(part_number, procedure_code) ==
    RowsInOrder({i \in 1..Len(multipliers_df) :
                    \/ multipliers_df[i].PartNumber = part_number
                    \/ multipliers_df[i].ProcedureCode = procedure_code})

MultiplierRows(part_number, procedure_code) ==
    RowsInOrder({i \in 1..Len(multipliers_df) :
                    /\ multipliers_df[i].PartNumber = part_number
                    /\ multipliers_df[i].ProcedureCode = procedure_code})

get_multiplier(part_number, procedure_code) ==
    LET row == MultiplierRows(part_number, procedure_code)
    IN  IF row # << >> THEN FloatOf(multipliers_df[row[1]].Multiplier) ELSE One

ProcRows(procedure_code) ==
    RowsInOrder({i \in 1..Len(procedures_df) : procedures_df[i].ProcedureCode = procedure_code})

Failure(err) == [ok |-> FALSE, err |-> err, BaseCost |-> 0, Multiplier |-> 0, Total |-> 0]

\* faulty variant: the multiplier is left out of the total
CostWithoutMultiplier(base_cost, multiplier, quantity_) ==
    [ok |-> TRUE, err |-> "", BaseCost |-> base_cost, Multiplier |-> multiplier,
     Total |-> FMul(base_cost, ToFloat(quantity_))]

Cost(base_cost, multiplier, quantity_) ==
    [ok |-> TRUE, err |-> "", BaseCost |-> base_cost, Multiplier |-> multiplier,
     Total |-> FMul(FMul(base_cost, multiplier), ToFloat(quantity_))]

\* app.py
calculate_cost_cli(part_number, procedure_code, quantity_) ==
    LET proc_row == ProcRows(procedure_code)
    IN  IF proc_row = << >> THEN Failure("ValueError: Procedure not found")
        ELSE Cost(FloatOf(procedures_df[proc_row[1]].BaseCostUSD),
                  get_multiplier(part_number, procedure_code), quantity_)

\* app_streamlit.py: no emptiness check, values[0] of an empty selection
calculate_cost_web(part_number, procedure_code, quantity_) ==
    LET proc_row == ProcRows(procedure_code)
    IN  IF proc_row = << >> THEN Failure("IndexError")
        ELSE Cost(FloatOf(procedures_df[proc_row[1]].BaseCostUSD),
                  get_multiplier(part_number, procedure_code), quantity_)

calculate_cost(fe, part_number, procedure_code, quantity_) ==
    IF fe = "cli" THEN calculate_cost_cli(part_number, procedure_code, quantity_)
    ELSE calculate_cost_web(part_number, procedure_code, quantity_)

CallRec(fe, part_number, procedure_code, quantity_) ==
    [frontend |-> fe, PartNumber |-> part_number, ProcedureCode |-> procedure_code,
     Quantity |-> quantity_, result |-> calculate_cost(fe, part_number, procedure_code, quantity_)]

\* ------------------------------------------------------------------------
\* Initial state: the tables are loaded, nothing is selected
\* ------------------------------------------------------------------------
Fresh ==
    /\ pc = "engine"
    /\ message = ""
    /\ selected_engine = "None"
    /\ selected_assembly = "None"
    /\ selected_parts = << >>
    /\ part_i = 0
    /\ quantity = 0
    /\ selected_procs = << >>
    /\ selections = << >>
    /\ calls = << >>
    /\ quote_items = << >>
    /\ part_totals = << >>
    /\ grand_total = 0

\* no call of prompt_choice is followed
NoPrompt ==
    [status |-> "idle", options |-> << >>, multi |-> FALSE, entry |-> << >>,
     printed |-> "", value |-> << >>]

Init ==
    /\ frontend \in {"cli", "web"}
    /\ multipliers_df = MultipliersCsv
    /\ prompt = NoPrompt
    /\ Fresh

\* ------------------------------------------------------------------------
\* Typed answers (app.py reads them with input())
\* ------------------------------------------------------------------------
\* A typed answer is its comma-separated fields; a field is an integer
\* literal, blank, or text that int() rejects.
IntTok(n) == [kind |-> "int", val |-> n]
BadTok == [kind |-> "bad", val |-> 0]
BlankTok == [kind |-> "blank", val |-> 0]

IndexTokens == {IntTok(n) : n \in 0..MaxIdx} \cup {BadTok, BlankTok}
IndexEntries == UNION {[1..n -> IndexTokens] : n \in 1..MaxEntryLen}

\* answers to "Enter quantity: ": an integer, or anything int() rejects
QuantityEntries == {<< IntTok(n) >> : n \in 0..MaxQty} \cup {<< BadTok >>, << BlankTok >>}

InvalidLiteral == "ValueError: invalid literal for int()"

\* int(choice) of a whole answer: fails unless it is one integer literal
IntParses(entry) == Len(entry) = 1 /\ entry[1].kind = "int"

RECURSIVE NonBlank(_)
NonBlank(entry) ==
    IF entry = << >> THEN << >>
    ELSE IF Head(entry).kind = "blank" THEN NonBlank(Tail(entry))
    ELSE << Head(entry) >> \o NonBlank(Tail(entry))

Retry == [accepted |-> FALSE, value |-> << >>]
Accept(v) == [accepted |-> TRUE, value |-> v]

\* faulty variant: in multi mode the indices out of range are dropped
prompt_choice_dropping(options, entry, multi) ==
    IF multi
    THEN LET fields == NonBlank(entry)
             good == RowsInOrder({k \in 1..Len(fields) :
                                     /\ fields[k].kind = "int"
                                     /\ 1 <= fields[k].val /\ fields[k].val <= Len(options)})
         IN  IF \E k \in 1..Len(fields) : fields[k].kind = "bad" THEN Retry
             ELSE Accept([k \in 1..Len(good) |-> options[fields[good[k]].val]])
    ELSE IF ~IntParses(entry) THEN Retry
         ELSE IF 1 <= entry[1].val /\ entry[1].val <= Len(options)
              THEN Accept(<< options[entry[1].val] >>)
              ELSE Retry

\* One pass of the loop of prompt_choice on one answer: the value returned
\* (a single choice is returned as a one-element sequence), or Retry when
\* the loop prints "Invalid selection. Try again." and asks again.
prompt_choice(options, entry, multi) ==
    IF multi
    THEN LET fields == NonBlank(entry)
         IN  IF \E k \in 1..Len(fields) : fields[k].kind = "bad" THEN Retry
             ELSE IF \A k \in 1..Len(fields) :
                        1 <= fields[k].val /\ fields[k].val <= Len(options)
                  THEN Accept([k \in 1..Len(fields) |-> options[fields[k].val]])
                  ELSE Retry
    ELSE IF ~IntParses(entry) THEN Retry
         ELSE IF 1 <= entry[1].val /\ entry[1].val <= Len(options)
              THEN Accept(<< options[entry[1].val] >>)
              ELSE Retry

InvalidSelection == "Invalid selection. Try again."

\* what prompt_choice makes of each answer a user may type
PromptAnswers(options, multi) == {prompt_choice(options, entry, multi) : entry \in IndexEntries}

\* ------------------------------------------------------------------------
\* Catalog queries of the selection flow
\* ------------------------------------------------------------------------
AllRows(df) == [k \in 1..Len(df) |-> k]

engine_models == [k \in 1..Len(engine_models_df) |-> engine_models_df[k].EngineModel]

\* rows of assemblies_df of one engine model
engine_assemblies(engine) ==
    RowsInOrder({i \in 1..Len(assemblies_df) : assemblies_df[i].EngineModel = engine})

assemblies(engine) ==
    LET rows == engine_assemblies(engine)
    IN  Unique([k \in 1..Len(rows) |-> assemblies_df[rows[k]].AssemblyCode])

\* faulty variant: the engine model is not compared
assembly_parts_of_any_engine(engine, assembly) ==
    RowsInOrder({i \in 1..Len(parts_df) : parts_df[i].AssemblyCode = assembly})

\* rows of parts_df of one engine model and assembly
assembly_parts(engine, assembly) ==
    RowsInOrder({i \in 1..Len(parts_df) :
                    /\ parts_df[i].EngineModel = engine
                    /\ parts_df[i].AssemblyCode = assembly})

\* the procedures offered for a part: every row of procedures_df
procedure_options == AllRows(procedures_df)

\* the answers to "Select Procedures (comma-separated): "
ProcedureAnswers == PromptAnswers(procedure_options, TRUE)

\* int(SeriesQty), or 0 when the cell is blank (None) : both are falsy
series_qty(part_row) ==
    IF part_row.SeriesQty = {} THEN 0 ELSE CHOOSE n \in part_row.SeriesQty : TRUE

\* ------------------------------------------------------------------------
\* Quote construction
\* ------------------------------------------------------------------------
LineItem(part_row, proc_code, qty, cost) ==
    [PartNumber |-> part_row.PartNumber, Description |-> part_row.Description,
     ProcedureCode |-> proc_code, Quantity |-> qty, BaseCost |-> cost.BaseCost,
     Multiplier |-> cost.Multiplier, Total |-> cost.Total]

\* the selections one answer adds: the part with each procedure chosen
Selected(pos, part_row, codes, qty) ==
    [k \in 1..Len(codes) |->
        [Pos |-> pos, PartNumber |-> part_row.PartNumber, Description |-> part_row.Description,
         ProcedureCode |-> codes[k], Quantity |-> qty]]

\* faulty variant: the new item is put in front
AppendItemInFront(items, item) == << item >> \o items

\* quote_items.append(...)
AppendItem(items, item) == Append(items, item)

\* the loop "for proc in selected_procs": stops at the first call that raises
RECURSIVE CostLoop(_, _, _, _, _, _)
CostLoop(fe, part_row, codes, qty, items, log) ==
    IF codes = << >> THEN [items |-> items, calls |-> log, failed |-> FALSE]
    ELSE LET c == CallRec(fe, part_row.PartNumber, Head(codes), qty)
         IN  IF ~c.result.ok
             THEN [items |-> items, calls |-> Append(log, c), failed |-> TRUE]
             ELSE CostLoop(fe, part_row, Tail(codes), qty,
                           AppendItem(items, LineItem(part_row, Head(codes), qty, c.result)),
                           Append(log, c))

\* part_totals[item['PartNumber']] += item['Total'] on a defaultdict(float),
\* kept as its (key, value) pairs in insertion order
AddToPart(totals, part_number, total) ==
    IF \E k \in 1..Len(totals) : totals[k].PartNumber = part_number
    THEN [k \in 1..Len(totals) |->
            IF totals[k].PartNumber = part_number
            THEN [totals[k] EXCEPT !.Subtotal = FAdd(totals[k].Subtotal, total)]
            ELSE totals[k]]
    ELSE Append(totals, [PartNumber |-> part_number, Subtotal |-> FAdd(0, total)])

RECURSIVE PartTotalsLoop(_, _)
PartTotalsLoop(items, totals) ==
    IF items = << >> THEN totals
    ELSE PartTotalsLoop(Tail(items), AddToPart(totals, Head(items).PartNumber, Head(items).Total))

\* grand_total = 0; grand_total += item["Total"] for each item (app.py)
RECURSIVE GrandTotalLoop(_, _)
GrandTotalLoop(items, acc) ==
    IF items = << >> THEN acc
    ELSE GrandTotalLoop(Tail(items), FAdd(acc, Head(items).Total))

\* df['Total'].sum() (app_streamlit.py): the reduction adds fewer than 8
\* values one after the other, from 0.0; the catalog keeps a web quote
\* below 8 line items
DataFrameTotalSum(items) == GrandTotalLoop(items, 0)

\* ------------------------------------------------------------------------
\* The interactive front end (app.py)
\* ------------------------------------------------------------------------
\* the row of the part a selection names: app.py selects rows of parts_df by
\* index; app_streamlit.py selects part numbers and takes the first of the
\* listed rows with that number
PartRowOf(sel) ==
    IF frontend = "cli" THEN parts_df[sel]
    ELSE LET part_options == assembly_parts(selected_engine, selected_assembly)
             k == CHOOSE i \in 1..Len(part_options) :
                    /\ parts_df[part_options[i]].PartNumber = sel
                    /\ \A j \in 1..(i - 1) : parts_df[part_options[j]].PartNumber # sel
         IN  parts_df[part_options[k]]

\* where the loop over selected_parts goes for its i-th part
CliPartStep(parts, i) ==
    IF i > Len(parts) THEN "breakdown"
    ELSE IF series_qty(parts_df[parts[i]]) # 0 THEN "use_series"
    ELSE "quantity"

\* Step 1, and the emptiness check of step 2
CliSelectEngine ==
    /\ frontend = "cli" /\ pc = "engine"
    /\ \E r \in PromptAnswers(engine_models, FALSE) :
             IF ~r.accepted
             THEN /\ message' = InvalidSelection
                  /\ UNCHANGED << pc, selected_engine >>
             ELSE /\ selected_engine' = r.value[1]
                  /\ IF engine_assemblies(r.value[1]) = << >>
                     THEN pc' = "exit" /\ message' = "No assemblies found"
                     ELSE pc' = "assembly" /\ message' = ""
    /\ UNCHANGED << frontend, catalog, prompt, calls, selected_assembly,
                    selected_parts, part_i, quantity, selected_procs, selections,
                    quote_items, part_totals, grand_total >>

\* Step 2, and the emptiness check of step 3
CliSelectAssembly ==
    /\ frontend = "cli" /\ pc = "assembly"
    /\ \E r \in PromptAnswers(assemblies(selected_engine), FALSE) :
             IF ~r.accepted
             THEN /\ message' = InvalidSelection
                  /\ UNCHANGED << pc, selected_assembly >>
             ELSE /\ selected_assembly' = r.value[1]
                  /\ IF assembly_parts(selected_engine, r.value[1]) = << >>
                     THEN pc' = "exit" /\ message' = "No parts found"
                     ELSE pc' = "parts" /\ message' = ""
    /\ UNCHANGED << frontend, catalog, prompt, calls, selected_engine,
                    selected_parts, part_i, quantity, selected_procs, selections,
                    quote_items, part_totals, grand_total >>

\* Step 3: several parts, by index into the listed rows
CliSelectParts ==
    /\ frontend = "cli" /\ pc = "parts"
    /\ \E r \in PromptAnswers(assembly_parts(selected_engine, selected_assembly), TRUE) :
             IF ~r.accepted
             THEN /\ message' = InvalidSelection
                  /\ UNCHANGED << pc, selected_parts, part_i >>
             ELSE /\ selected_parts' = r.value
                  /\ part_i' = 1
                  /\ pc' = CliPartStep(r.value, 1)
                  /\ message' = ""
    /\ UNCHANGED << frontend, catalog, prompt, calls, selected_engine,
                    selected_assembly, quantity, selected_procs, selections,
                    quote_items, part_totals, grand_total >>

\* Step 4: "Use full series? (y/n): "
CliUseSeries ==
    /\ frontend = "cli" /\ pc = "use_series"
    /\ \E use_series \in BOOLEAN :
         IF use_series
         THEN quantity' = series_qty(parts_df[selected_parts[part_i]]) /\ pc' = "procs"
         ELSE quantity' = quantity /\ pc' = "quantity"
    /\ message' = ""
    /\ UNCHANGED << frontend, catalog, prompt, calls, selected_engine,
                    selected_assembly, selected_parts, part_i, selected_procs,
                    selections, quote_items, part_totals, grand_total >>

\* Step 4: quantity = int(input("Enter quantity: ")), outside any try
CliEnterQuantity ==
    /\ frontend = "cli" /\ pc = "quantity"
    /\ \E entry \in QuantityEntries :
         IF IntParses(entry)
         THEN quantity' = entry[1].val /\ pc' = "procs" /\ message' = ""
         ELSE quantity' = quantity /\ pc' = "crash" /\ message' = InvalidLiteral
    /\ UNCHANGED << frontend, catalog, prompt, calls, selected_engine, selected_assembly,
                    selected_parts, part_i, selected_procs, selections,
                    quote_items, part_totals, grand_total >>

\* Step 4: several procedures, by index into procedures_df, and one line
\* item per chosen procedure; then on to the next part
CliSelectProcs ==
    /\ frontend = "cli" /\ pc = "procs"
    /\ \E r \in ProcedureAnswers :
             IF ~r.accepted
             THEN /\ message' = InvalidSelection
                  /\ UNCHANGED << pc, selected_procs, selections, quote_items, calls, part_i >>
             ELSE /\ Len(quote_items) + Len(r.value) <= MaxItems
                  /\ selected_procs' = [k \in 1..Len(r.value) |->
                                            procedures_df[r.value[k]].ProcedureCode]
                  /\ LET part_row == parts_df[selected_parts[part_i]]
                         out == CostLoop("cli", part_row, selected_procs', quantity,
                                         quote_items, calls)
                     IN  /\ selections' = selections \o Selected(part_i, part_row, selected_procs', quantity)
                         /\ quote_items' = out.items
                         /\ calls' = out.calls
                         /\ IF out.failed
                            THEN /\ pc' = "crash"
                                 /\ message' = out.calls[Len(out.calls)].result.err
                                 /\ part_i' = part_i
                            ELSE /\ pc' = CliPartStep(selected_parts, part_i + 1)
                                 /\ message' = ""
                                 /\ part_i' = part_i + 1
    /\ UNCHANGED << frontend, catalog, prompt, selected_engine, selected_assembly,
                    selected_parts, quantity, part_totals, grand_total >>

\* Step 5: the breakdown, the subtotals per part and the grand total
CliBreakdown ==
    /\ frontend = "cli" /\ pc = "breakdown"
    /\ part_totals' = PartTotalsLoop(quote_items, << >>)
    /\ grand_total' = GrandTotalLoop(quote_items, 0)
    /\ pc' = "done"
    /\ message' = "breakdown"
    /\ UNCHANGED << frontend, catalog, prompt, calls, selected_engine,
                    selected_assembly, selected_parts, part_i, quantity, selected_procs,
                    selections, quote_items >>

\* ------------------------------------------------------------------------
\* The web front end (app_streamlit.py): one run of the script, each widget
\* returning the value the user left in it
\* ------------------------------------------------------------------------
\* st.selectbox: one of the options, None when there is none
Selectbox(options) == IF options = << >> THEN {"None"} ELSE {options[k] : k \in 1..Len(options)}

\* st.multiselect: some of the options, each once, in the order chosen
Multiselect(options) ==
    LET Opts == {options[k] : k \in 1..Len(options)}
    IN  {s \in UNION {[1..n -> Opts] : n \in 0..Len(options)} :
            \A i, j \in 1..Len(s) : i # j => s[i] # s[j]}

\* st.number_input(min_value=1, value=1)
NumberInput == 1..MaxQty

WebPartStep(parts, i) == IF i > Len(parts) THEN "results" ELSE "quantity"

\* Step 1
WebSelectEngine ==
    /\ frontend = "web" /\ pc = "engine"
    /\ selected_engine' \in Selectbox(engine_models)
    /\ pc' = "assembly"
    /\ UNCHANGED << frontend, catalog, prompt, calls, message, selected_assembly,
                    selected_parts, part_i, quantity, selected_procs, selections,
                    quote_items, part_totals, grand_total >>

\* Step 2
WebSelectAssembly ==
    /\ frontend = "web" /\ pc = "assembly"
    /\ selected_assembly' \in Selectbox(assemblies(selected_engine))
    /\ pc' = "parts"
    /\ UNCHANGED << frontend, catalog, prompt, calls, message, selected_engine,
                    selected_parts, part_i, quantity, selected_procs, selections,
                    quote_items, part_totals, grand_total >>

\* Step 3
WebSelectParts ==
    /\ frontend = "web" /\ pc = "parts"
    /\ LET part_options == assembly_parts(selected_engine, selected_assembly)
       IN  selected_parts' \in
             Multiselect([k \in 1..Len(part_options) |-> parts_df[part_options[k]].PartNumber])
    /\ part_i' = 1
    /\ pc' = WebPartStep(selected_parts', 1)
    /\ UNCHANGED << frontend, catalog, prompt, calls, message, selected_engine,
                    selected_assembly, quantity, selected_procs, selections,
                    quote_items, part_totals, grand_total >>

\* the checkbox "Use full series" and the quantity input of one part
WebQuantity ==
    /\ frontend = "web" /\ pc = "quantity"
    /\ LET sq == series_qty(PartRowOf(selected_parts[part_i]))
       IN  \E use_series \in BOOLEAN :
             IF use_series /\ sq # 0 THEN quantity' = sq
             ELSE quantity' \in NumberInput
    /\ pc' = "procs"
    /\ UNCHANGED << frontend, catalog, prompt, calls, message, selected_engine,
                    selected_assembly, selected_parts, part_i, selected_procs, selections,
                    quote_items, part_totals, grand_total >>

\* the procedure multiselect of one part, and one line item per chosen
\* procedure; then on to the next part
WebSelectProcs ==
    /\ frontend = "web" /\ pc = "procs"
    /\ selected_procs' \in
         Multiselect([k \in 1..Len(procedures_df) |-> procedures_df[k].ProcedureCode])
    /\ LET part_row == PartRowOf(selected_parts[part_i])
           out == CostLoop("web", part_row, selected_procs', quantity, quote_items, calls)
       IN  /\ selections' = selections \o Selected(part_i, part_row, selected_procs', quantity)
           /\ quote_items' = out.items
           /\ calls' = out.calls
           /\ IF out.failed
              THEN /\ pc' = "crash"
                   /\ message' = out.calls[Len(out.calls)].result.err
                   /\ part_i' = part_i
              ELSE /\ pc' = WebPartStep(selected_parts, part_i + 1)
                   /\ message' = message
                   /\ part_i' = part_i + 1
    /\ UNCHANGED << frontend, catalog, prompt, selected_engine, selected_assembly,
                    selected_parts, quantity, part_totals, grand_total >>

\* Step 4: shown only when there is a line item
WebResults ==
    /\ frontend = "web" /\ pc = "results"
    /\ IF quote_items # << >>
       THEN /\ part_totals' = PartTotalsLoop(quote_items, << >>)
            /\ grand_total' = DataFrameTotalSum(quote_items)
            /\ message' = "breakdown"
       ELSE UNCHANGED << part_totals, grand_total, message >>
    /\ pc' = "done"
    /\ UNCHANGED << frontend, catalog, prompt, calls, selected_engine,
                    selected_assembly, selected_parts, part_i, quantity, selected_procs,
                    selections, quote_items >>

Next ==
    \/ CliSelectEngine
    \/ CliSelectAssembly
    \/ CliSelectParts
    \/ CliUseSeries
    \/ CliEnterQuantity
    \/ CliSelectProcs
    \/ CliBreakdown
    \/ WebSelectEngine
    \/ WebSelectAssembly
    \/ WebSelectParts
    \/ WebQuantity
    \/ WebSelectProcs
    \/ WebResults

Spec == Init /\ [][Next]_vars

\* ------------------------------------------------------------------------
\* The pricing functions called directly, on any argument
\* ------------------------------------------------------------------------
ArgParts == {"P1", "P2", "P9"}
ArgCodes == {"R100", "R300", "R999"}

CallCalculateCost ==
    /\ Len(calls) < MaxCalls
    /\ \E p \in ArgParts, c \in ArgCodes, q \in 1..MaxCalcQty :
         calls' = Append(calls, CallRec(frontend, p, c, q))
    /\ UNCHANGED << frontend, catalog, prompt, session >>

InitCalc ==
    /\ frontend \in {"cli", "web"}
    /\ multipliers_df \in MultiplierTables
    /\ prompt = NoPrompt
    /\ Fresh

NextCalc == CallCalculateCost

SpecCalc == InitCalc /\ [][NextCalc]_vars

\* ------------------------------------------------------------------------
\* prompt_choice called on its own: the loop reads answers until it returns
\* ------------------------------------------------------------------------
\* the option lists of Steps 1 and 2
PromptOptionLists == {engine_models, assemblies("E1")}

InitPrompt ==
    /\ frontend = "cli"
    /\ multipliers_df = MultipliersCsv
    /\ \E options \in PromptOptionLists, multi \in BOOLEAN :
          prompt = [NoPrompt EXCEPT !.status = "asking", !.options = options, !.multi = multi]
    /\ Fresh

\* choice = input(prompt).strip(), then return or print and ask again
PromptRead ==
    /\ prompt.status = "asking"
    /\ \E entry \in IndexEntries :
          LET r == prompt_choice(prompt.options, entry, prompt.multi)
          IN  prompt' = IF r.accepted
                        THEN [prompt EXCEPT !.status = "returned", !.entry = entry,
                                            !.printed = "", !.value = r.value]
                        ELSE [prompt EXCEPT !.entry = entry, !.printed = InvalidSelection]
    /\ UNCHANGED << frontend, catalog, session, calls >>

NextPrompt == PromptRead

SpecPrompt == InitPrompt /\ [][NextPrompt]_vars

\* ------------------------------------------------------------------------
\* Properties
\* ------------------------------------------------------------------------
RECURSIVE FSum(_)
\* the values of a sequence added one after the other, as floats
FSum(xs) == IF xs = << >> THEN 0 ELSE FAdd(FSum(SubSeq(xs, 1, Len(xs) - 1)), xs[Len(xs)])

RECURSIVE TotalsOfPart(_, _)
\* the Totals of the line items of one part number, in quote order
TotalsOfPart(items, part_number) ==
    IF items = << >> THEN << >>
    ELSE IF Head(items).PartNumber = part_number
         THEN << Head(items).Total >> \o TotalsOfPart(Tail(items), part_number)
         ELSE TotalsOfPart(Tail(items), part_number)

QuoteShown == pc = "done" /\ message = "breakdown"

\* C1: in a finished quote the subtotal of each part number is the sum of the
\* Totals of that part's line items, and the grand total equals the sum of the
\* per-part subtotals, which equals the sum of all line item Totals.
GrandTotalIsSumOfSubtotals ==
    QuoteShown =>
        /\ \A k \in 1..Len(part_totals) :
             part_totals[k].Subtotal = FSum(TotalsOfPart(quote_items, part_totals[k].PartNumber))
        /\ grand_total = FSum([k \in 1..Len(part_totals) |-> part_totals[k].Subtotal])
        /\ grand_total = FSum([k \in 1..Len(quote_items) |-> quote_items[k].Total])

KnownCode(code) == \E i \in 1..Len(procedures_df) : procedures_df[i].ProcedureCode = code

BothMatch(part_number, code) ==
    {i \in 1..Len(multipliers_df) :
        /\ multipliers_df[i].PartNumber = part_number
        /\ multipliers_df[i].ProcedureCode = code}

\* C2: for a procedure code of the Procedure table and a positive quantity q,
\* calculate_cost returns the BaseCostUSD of that procedure, the multiplier
\* get_multiplier gives for (part, procedure), and total = baseCost *
\* multiplier * q in the program's arithmetic; base 200 with no multiplier
\* row and q = 3 gives 600, base 200 with multiplier 1.5 and q = 2 gives 600.
CalculateCostIsProduct ==
    \A k \in 1..Len(calls) :
        LET c == calls[k]
        IN  (KnownCode(c.ProcedureCode) /\ c.Quantity >= 1) =>
              /\ c.result.ok
              /\ \E i \in 1..Len(procedures_df) :
                    /\ procedures_df[i].ProcedureCode = c.ProcedureCode
                    /\ c.result.BaseCost = procedures_df[i].BaseCostUSD
              /\ c.result.Multiplier = get_multiplier(c.PartNumber, c.ProcedureCode)
              /\ c.result.Total =
                    FMul(FMul(c.result.BaseCost, c.result.Multiplier), ToFloat(c.Quantity))
              /\ (c.ProcedureCode = "R100" /\ c.Quantity = 3
                     /\ BothMatch(c.PartNumber, "R100") = {}) =>
                   /\ c.result.BaseCost = 200 * One
                   /\ c.result.Multiplier = One
                   /\ c.result.Total = 600 * One
              /\ (c.ProcedureCode = "R100" /\ c.Quantity = 2 /\ c.result.Multiplier = 3) =>
                   c.result.Total = 600 * One

\* a call with base 200, multiplier 1.5 and quantity 2 has returned
CalculateCostWitness ==
    \E k \in 1..Len(calls) :
        /\ calls[k].result.ok
        /\ calls[k].result.BaseCost = 200 * One
        /\ calls[k].result.Multiplier = 3
        /\ calls[k].Quantity = 2
        /\ calls[k].result.Total = 600 * One

\* C3: get_multiplier returns the multiplier stored in a row that matches the
\* part number and the procedure code (the first such row), and exactly 1.0
\* when no row matches both; a row matching one of the two does not count.
GetMultiplierLookup ==
    \A k \in 1..Len(calls) :
        LET c == calls[k]
            M == BothMatch(c.PartNumber, c.ProcedureCode)
        IN  c.result.ok =>
              /\ M = {} => c.result.Multiplier = One
              /\ M # {} => \E i \in M : /\ \A j \in M : i <= j
                                        /\ c.result.Multiplier = multipliers_df[i].Multiplier

\* one call took a stored multiplier, another fell back to 1.0 although a row
\* matches its part number and another row matches its procedure code
GetMultiplierWitness ==
    /\ \E k \in 1..Len(calls) :
         /\ calls[k].result.ok
         /\ BothMatch(calls[k].PartNumber, calls[k].ProcedureCode) # {}
         /\ calls[k].result.Multiplier # One
    /\ \E k \in 1..Len(calls) :
         /\ calls[k].result.ok
         /\ BothMatch(calls[k].PartNumber, calls[k].ProcedureCode) = {}
         /\ \E i \in 1..Len(multipliers_df) : multipliers_df[i].PartNumber = calls[k].PartNumber
         /\ \E i \in 1..Len(multipliers_df) :
               multipliers_df[i].ProcedureCode = calls[k].ProcedureCode
         /\ calls[k].result.Multiplier = One

\* C4: in both front ends calculate_cost of a procedure code that is not in
\* the Procedure table fails with the not-found error "Procedure <code> not
\* found" and returns no cost.
MissingProcedureIsNotFound ==
    \A k \in 1..Len(calls) :
        ~KnownCode(calls[k].ProcedureCode) =>
            /\ ~calls[k].result.ok
            /\ calls[k].result.err = "ValueError: Procedure not found"

\* C5: every line item of a quote has a positive quantity, in both front ends.
QuantityIsPositive ==
    \A k \in 1..Len(quote_items) : quote_items[k].Quantity >= 1

ItemKey(item) ==
    [PartNumber |-> item.PartNumber, Description |-> item.Description,
     ProcedureCode |-> item.ProcedureCode, Quantity |-> item.Quantity]

SelectionKey(sel) ==
    [PartNumber |-> sel.PartNumber, Description |-> sel.Description,
     ProcedureCode |-> sel.ProcedureCode, Quantity |-> sel.Quantity]

\* C6: the line items of a quote are the selections made, one line item per
\* (part, procedure) selection, in the order of selection: parts in the order
\* selected and, for each part, its procedures in the order selected.
QuoteOrderPreserved ==
    /\ Len(quote_items) = Len(selections)
    /\ \A k \in 1..Len(selections) :
         /\ ItemKey(quote_items[k]) = SelectionKey(selections[k])
         /\ selections[k].Pos \in 1..Len(selected_parts)
         /\ PartRowOf(selected_parts[selections[k].Pos]).PartNumber = quote_items[k].PartNumber
         /\ k > 1 => selections[k - 1].Pos <= selections[k].Pos

\* a finished quote of three line items: two procedures of one part, chosen
\* against the table order, then one of another part
QuoteOrderWitness ==
    /\ QuoteShown
    /\ Len(quote_items) = 3
    /\ quote_items[1].PartNumber = "P2"
    /\ quote_items[1].ProcedureCode = "R300"
    /\ quote_items[2].PartNumber = "P2"
    /\ quote_items[2].ProcedureCode = "R100"
    /\ quote_items[3].PartNumber = "P1"

\* C7: in the interactive front end a quantity answer that is no number does
\* not abort the session: the flow stays at the quantity step and asks again.
QuantityAnswerNeverAborts ==
    ~(frontend = "cli" /\ pc = "crash" /\ message = InvalidLiteral)

NoAssemblies ==
    /\ selected_engine # "None"
    /\ ~\E i \in 1..Len(assemblies_df) : assemblies_df[i].EngineModel = selected_engine

NoParts ==
    /\ selected_engine # "None"
    /\ ~\E i \in 1..Len(parts_df) :
          /\ parts_df[i].EngineModel = selected_engine
          /\ parts_df[i].AssemblyCode = selected_assembly

\* C8: once the engine model chosen turns out to have no assembly, or the
\* (engine model, assembly) chosen to have no part, the front end reports it
\* and ends the session path: no later selection step is reached and no line
\* item or total is produced, in both front ends.
NoResultsEndsSession ==
    /\ (NoAssemblies /\ pc \notin {"engine", "assembly"}) =>
          /\ pc = "exit"
          /\ message = "No assemblies found"
          /\ quote_items = << >>
    /\ (~NoAssemblies /\ NoParts /\ pc \notin {"engine", "assembly", "parts"}) =>
          /\ pc = "exit"
          /\ message = "No parts found"
          /\ quote_items = << >>

\* C9: every procedure code passed to calculate_cost by the selection flow is
\* in the Procedure table and every part passed is a part of the selected
\* engine model and assembly; no call fails, and the flow never stops on the
\* procedure-not-found failure.
OnlyOfferedCodesAreCosted ==
    /\ \A k \in 1..Len(calls) :
         /\ KnownCode(calls[k].ProcedureCode)
         /\ \E i \in 1..Len(parts_df) :
               /\ parts_df[i].EngineModel = selected_engine
               /\ parts_df[i].AssemblyCode = selected_assembly
               /\ parts_df[i].PartNumber = calls[k].PartNumber
         /\ calls[k].result.ok
    /\ pc = "crash" => message = InvalidLiteral

\* a finished quote whose first two calls priced different parts
CostedCallsWitness ==
    /\ QuoteShown
    /\ Len(calls) >= 2
    /\ calls[1].PartNumber # calls[2].PartNumber

\* the fields of an answer that are not blank, in order
Fields(entry) ==
    LET at == RowsInOrder({i \in 1..Len(entry) : entry[i].kind # "blank"})
    IN  [k \in 1..Len(at) |-> entry[at[k]]]

InRange(field, options) ==
    field.kind = "int" /\ 1 <= field.val /\ field.val <= Len(options)

\* the answers prompt_choice accepts
Acceptable(options, entry, multi) ==
    IF multi THEN \A k \in 1..Len(Fields(entry)) : InRange(Fields(entry)[k], options)
    ELSE Len(entry) = 1 /\ InRange(entry[1], options)

\* C10 (as amended): prompt_choice returns only after an answer it accepts and
\* returns only offered options: in single mode the option at the index
\* typed, in multi mode the options at the indices typed, in the order typed,
\* accepted only if every index is in 1..len(options); any other answer
\* returns nothing, prints "Invalid selection. Try again." and is followed by
\* another prompt.  A multi-mode selection is empty exactly when the answer
\* holds no index at all (it is empty or only commas), which is accepted.
PromptChoiceReturnsOffered ==
    /\ prompt.status = "returned" =>
          /\ Acceptable(prompt.options, prompt.entry, prompt.multi)
          /\ prompt.printed = ""
          /\ \A k \in 1..Len(prompt.value) :
                \E i \in 1..Len(prompt.options) : prompt.value[k] = prompt.options[i]
          /\ ~prompt.multi => prompt.value = << prompt.options[prompt.entry[1].val] >>
          /\ prompt.multi =>
                /\ Len(prompt.value) = Len(Fields(prompt.entry))
                /\ \A k \in 1..Len(prompt.value) :
                      prompt.value[k] = prompt.options[Fields(prompt.entry)[k].val]
                /\ (prompt.value = << >>) <=> (Fields(prompt.entry) = << >>)
    /\ (prompt.status = "asking" /\ prompt.entry # << >>) =>
          /\ ~Acceptable(prompt.options, prompt.entry, prompt.multi)
          /\ prompt.printed = InvalidSelection
          /\ prompt.value = << >>

\* a multi-mode call has returned two options in the order typed, which is
\* not the order listed
PromptChoiceWitness ==
    /\ prompt.status = "returned"
    /\ prompt.multi
    /\ Len(prompt.value) = 2
    /\ prompt.value[1] = prompt.options[2]
    /\ prompt.value[2] = prompt.options[1]

\* C10 (as claimed): a selection returned by prompt_choice in multi mode is
\* never empty.
MultiSelectionIsNonEmpty ==
    (prompt.status = "returned" /\ prompt.multi) => prompt.value # << >>

====
